---------------------------- MODULE Spec2Model ----------------------------
(***************************************************************************)
(* State-machine model of the stb crate's I/O adapter and foreign-buffer   *)
(* ownership layer: the Read Bridge (image.rs, Wrapper), the Owned Buffer  *)
(* (image.rs, Data<T>) and the Write Bridge (image_write.rs, write_func).  *)
(* The codec Engine (stb_image / stb_image_write, C) is the environment:   *)
(* it calls the bridges' primitives in any order and returns any result.   *)
(***************************************************************************)
EXTENDS Integers, Sequences, FiniteSets

(***************************************************************************)
(* Bounds of the model.                                                    *)
(***************************************************************************)
MaxPos == 5        \* largest source offset explored
MaxRead == 2       \* largest max_len the Engine passes to pull
MaxSkip == 2       \* largest magnitude the Engine passes to advance
MaxPtr == 1        \* number of addresses the Engine's allocator hands out
MaxViews == 2      \* views counted per Owned Buffer
MaxChunk == 2      \* largest size the Engine passes to one push
MaxPushes == 3     \* pushes the Engine makes in one encode call

(***************************************************************************)
(* Fixed-width integers.  A u64 / usize is a little-endian sequence of     *)
(* eight base-256 limbs, so that Rust's 64-bit results are computed at     *)
(* their real width.                                                       *)
(***************************************************************************)
Base == 256
I32Max == 2147483647

RECURSIVE ToLimbs(_, _)
\* the n low base-256 digits of the natural number x
ToLimbs(x, n) ==
    IF n = 0 THEN <<>> ELSE <<x % Base>> \o ToLimbs(x \div Base, n - 1)

\* `n as u64` for n : c_int -- a sign-extending cast
I32AsU64(n) ==
    IF n >= 0
    THEN ToLimbs(n, 8)
    ELSE LET m == (n + I32Max) + 1       \* n + 2^31, in 0 .. 2^31 - 1
             l == ToLimbs(m, 4)
         IN  <<l[1], l[2], l[3], l[4] + 128, 255, 255, 255, 255>>

\* a u64 that came from a source offset
U64(x) == ToLimbs(x, 8)

RECURSIVE SubLimbs(_, _, _)
\* limb-wise a - b - borrow; .borrow = 1 iff the true difference is negative
SubLimbs(a, b, borrow) ==
    IF a = <<>>
    THEN [limbs |-> <<>>, borrow |-> borrow]
    ELSE LET d == Head(a) - Head(b) - borrow
             r == SubLimbs(Tail(a), Tail(b), IF d < 0 THEN 1 ELSE 0)
         IN  [limbs |-> <<IF d < 0 THEN d + Base ELSE d>> \o r.limbs,
              borrow |-> r.borrow]

\* u64 `a - b`: the wrapped difference and whether the subtraction overflowed
SubU64(a, b) ==
    LET r == SubLimbs(a, b, 0)
    IN  [val |-> r.limbs, overflow |-> r.borrow = 1]

\* a u64 small enough to be an offset of the model (below 2^31)
FitsNat(l) ==
    /\ l[4] < 128
    /\ \A i \in 5..8 : l[i] = 0

U64ToNat(l) == l[1] + l[2] * Base + l[3] * Base * Base + l[4] * Base * Base * Base

RECURSIVE MulDigit(_, _, _)
\* limbs of a * d + carry for one base-256 digit d: Len(a) + 1 limbs
MulDigit(a, d, carry) ==
    IF a = <<>>
    THEN <<carry>>
    ELSE LET t == Head(a) * d + carry
         IN  <<t % Base>> \o MulDigit(Tail(a), d, t \div Base)

RECURSIVE AddLimbs(_, _, _)
\* limb-wise a + b + carry, truncated to Len(a) limbs
AddLimbs(a, b, carry) ==
    IF a = <<>>
    THEN <<>>
    ELSE LET t == Head(a) + Head(b) + carry
         IN  <<t % Base>> \o AddLimbs(Tail(a), Tail(b), t \div Base)

Zeros(n) == [i \in 1..n |-> 0]

RECURSIVE MulLimbs(_, _)
\* the exact product of two 4-limb naturals, as 8 limbs
MulLimbs(a, b) ==
    IF b = <<>>
    THEN Zeros(8)
    ELSE AddLimbs(MulDigit(a, Head(b), 0) \o Zeros(3),
                  SubSeq(<<0>> \o MulLimbs(a, Tail(b)), 1, 8), 0)

\* the magnitude of an i32, as 4 limbs
AbsI32(a) ==
    IF a >= 0 THEN ToLimbs(a, 4)
    ELSE IF a = (-I32Max) - 1 THEN <<0, 0, 0, 128>>
    ELSE ToLimbs(-a, 4)

\* the i32 whose two's-complement bits are the 4 limbs l
I32OfBits(l) ==
    (IF l[4] < 128 THEN l[4] ELSE l[4] - Base) * Base * Base * Base
        + l[3] * Base * Base + l[2] * Base + l[1]

\* i32 `a * b`: the wrapped product and whether the multiplication overflowed
MulI32(a, b) ==
    LET mag == MulLimbs(AbsI32(a), AbsI32(b))
        neg == (a < 0) # (b < 0) /\ mag # Zeros(8)
        low == SubSeq(mag, 1, 4)
        high == \E i \in 5..8 : mag[i] # 0
        bits == IF neg THEN SubLimbs(Zeros(4), low, 0).limbs ELSE low
    IN  [val |-> I32OfBits(bits),
         overflow |-> \/ high
                      \/ ~neg /\ low[4] >= 128
                      \/ neg /\ low[4] >= 128 /\ low # <<0, 0, 0, 128>>]

(***************************************************************************)
(* The caller's source, R: io::Read + io::Seek, over a fixed byte string.  *)
(***************************************************************************)
SrcBytes == <<10, 11, 12>>
SrcLen == Len(SrcBytes)

Min(a, b) == IF a < b THEN a ELSE b

\* the counts a successful `reader.read(dest)` may return at offset pos for a
\* dest of `size` bytes: 0 exactly at end of stream or for an empty dest,
\* otherwise any short or full read
ReadCounts(pos, size) ==
    LET avail == IF pos >= SrcLen THEN 0 ELSE Min(size, SrcLen - pos)
    IN  IF avail = 0 THEN {0} ELSE 1..avail

\* what `reader.read(dest)` may return: Err, or Ok(n)
ReadOutcomes(pos, size) ==
    {[ok |-> FALSE, n |-> 0]}
        \cup {[ok |-> TRUE, n |-> k] : k \in ReadCounts(pos, size)}

\* the bytes such a read stores into dest
ReadBytes(pos, n) == SubSeq(SrcBytes, pos + 1, pos + n)

VARIABLES
    overflowChecks, \* build profile: TRUE = overflow checks on (debug)
    pc,             \* "idle" | "decoding" | "encoding" | "panicked"
    call,           \* the top-level call in progress
    result,         \* what the last completed call returned
    srcPos,         \* the source's Stream Position Cursor
    srcFailed,      \* the source returned a failure during this call
    err,            \* Wrapper.err, the latch
    last,           \* the last primitive call of the Engine and what it did
    engPos,         \* offset the Engine is at in the encoded bytes
    heap,           \* the Engine's allocations, by address
    bufs,           \* the Data<T> values the caller holds
    enc,            \* the encode call in progress and its encoded output
    pushed,         \* the chunks the Engine has pushed in this call
    sunk,           \* the slices the caller's sink closure has received
    file,           \* the bytes at the named destination
    dxt             \* the last stb_compress_dxt_block call and what it did

buildVars == <<overflowChecks>>
bridgeVars == <<srcPos, srcFailed, err, last, engPos>>
dataVars == <<heap, bufs>>
encVars == <<enc, pushed, sunk, file>>
vars == <<overflowChecks, pc, call, result, srcPos, srcFailed, err, last,
          engPos, heap, bufs, enc, pushed, sunk, file, dxt>>

Null == 0
Ptrs == 1..MaxPtr

\* Channels, as i32
Default == 0
Grey == 1
GreyAlpha == 2
Rgb == 3
RgbAlpha == 4
Channels == {Default, Grey, GreyAlpha, Rgb, RgbAlpha}

\* Info::default()
InfoDefault == [width |-> 0, height |-> 0, components |-> 0]

\* the value of every element of the image the Engine decodes to buffers of
\* a given metadata: uniform images, as the white 20x30 fixture of the tests
Elem(info) == IF info.width = 20 THEN 255 ELSE 7

\* what memory holds where no live allocation is
Stale == {-1, 7, 255}

\* Decode Metadata the Engine reports with a decoded image: the element count
\* of its allocation fits the Engine's int
EngineInfos ==
    { [width |-> 20, height |-> 30, components |-> 1],
      [width |-> 16383, height |-> 32768, components |-> 3] }

NoCall == [fn |-> "none", prior |-> FALSE]
NoResult == [fn |-> "none", tag |-> "none", engine |-> 0, info |-> InfoDefault,
             data |-> Null, len |-> <<>>, invoked |-> 0, elems |-> 0,
             latch |-> FALSE]
NoImage == [w |-> 0, h |-> 0, comp |-> 0, buffer |-> <<>>]
NoEnc == [fn |-> "none", fmt |-> "none", elem |-> "u8", img |-> NoImage,
          out |-> <<>>, ret |-> 0]
NoFile == [fmt |-> "none", img |-> NoImage, bytes |-> <<>>, ret |-> 0]
NoPrim == [op |-> "none", n |-> 0, ret |-> 0, reads |-> 0, seeks |-> 0,
           bytes |-> <<>>, before |-> 0, latched |-> FALSE, failed |-> FALSE,
           afterEnd |-> FALSE]

NoDxt == [tag |-> "none", dest_len |-> 0, src_len |-> 0, alpha |-> 0,
          mode |-> 0, read |-> 0, written |-> 0]

Init ==
    /\ overflowChecks \in BOOLEAN
    /\ pc = "idle"
    /\ call = NoCall
    /\ result = NoResult
    /\ srcPos = 0
    /\ srcFailed = FALSE
    /\ err = FALSE
    /\ last = NoPrim
    /\ engPos = 0
    /\ heap = [p \in Ptrs |-> [st |-> "unalloc", frees |-> 0, views |-> 0,
                                fill |-> 0]]
    /\ bufs = <<>>
    /\ enc = NoEnc
    /\ pushed = <<>>
    /\ sunk = <<>>
    /\ file = NoFile
    /\ dxt = NoDxt

(***************************************************************************)
(* Read Bridge: Wrapper<R>                                                 *)
(***************************************************************************)

\* a pull that returned 0 at a clean end of stream: the latch was clear, the
\* source had no byte left and its read did not fail
CleanEnd(p) ==
    /\ p.op = "read"
    /\ p.n > 0
    /\ p.ret = 0
    /\ ~p.latched
    /\ ~p.failed
    /\ p.before >= SrcLen

\* what a primitive call records: the latch and the offset it started from,
\* and whether it follows a pull that met a clean end of stream
Prim(op, n) ==
    [NoPrim EXCEPT !.op = op, !.n = n, !.before = srcPos, !.latched = err,
                   !.afterEnd = CleanEnd(last)]

\* the result of a top-level call, which has invoked the Engine once;
\* .latch is the latch of the call's bridge, if it had one, as the bridge is
\* dropped
EngineResult(fn) == [NoResult EXCEPT !.fn = fn, !.invoked = 1, !.latch = err]

\* Wrapper::new keeping the latch the previous call's bridge ended with
Wrapper_new_Reused(fn) ==
    /\ pc = "idle"
    /\ pc' = "decoding"
    /\ call' = [fn |-> fn, prior |-> result.latch]
    /\ result' = NoResult
    /\ err' = result.latch
    /\ srcFailed' = FALSE
    /\ last' = NoPrim
    /\ engPos' = srcPos
    /\ UNCHANGED <<overflowChecks, dxt, encVars, srcPos, dataVars>>

\* Wrapper::new -- a bridge with the latch clear, handed to the Engine.
\* call.prior: the call before this one ended with its bridge's latch set.
Wrapper_new(fn) ==
    /\ pc = "idle"
    /\ pc' = "decoding"
    /\ call' = [fn |-> fn, prior |-> result.latch]
    /\ result' = NoResult
    /\ err' = FALSE
    /\ srcFailed' = FALSE
    /\ last' = NoPrim
    /\ engPos' = srcPos
    /\ UNCHANGED <<overflowChecks, dxt, encVars, srcPos, dataVars>>

\* Wrapper::read without its `if self.err { return 0; }`
Wrapper_read_NoLatchCheck(size, r) ==
    IF r.ok
    THEN /\ srcPos' = srcPos + r.n
         /\ engPos' = engPos + r.n
         /\ last' = [Prim("read", size) EXCEPT !.ret = r.n, !.reads = 1,
                                               !.bytes = ReadBytes(srcPos, r.n)]
         /\ UNCHANGED <<srcFailed, err>>
    ELSE /\ err' = TRUE
         /\ srcFailed' = TRUE
         /\ last' = [Prim("read", size) EXCEPT !.reads = 1, !.failed = TRUE]
         /\ UNCHANGED <<srcPos, engPos>>

\* Wrapper::read returning the requested size instead of the count read
Wrapper_read_ReturnsSize(size, r) ==
    IF err
    THEN /\ last' = Prim("read", size)
         /\ UNCHANGED <<srcPos, srcFailed, err, engPos>>
    ELSE IF r.ok
    THEN /\ srcPos' = srcPos + r.n
         /\ engPos' = engPos + r.n
         /\ last' = [Prim("read", size) EXCEPT !.ret = size, !.reads = 1,
                                               !.bytes = ReadBytes(srcPos, r.n)]
         /\ UNCHANGED <<srcFailed, err>>
    ELSE /\ err' = TRUE
         /\ srcFailed' = TRUE
         /\ last' = [Prim("read", size) EXCEPT !.reads = 1, !.failed = TRUE]
         /\ UNCHANGED <<srcPos, engPos>>

\* Wrapper::read reading once more when the source's read failed
Wrapper_read_Retries(size, r) ==
    IF err
    THEN /\ last' = Prim("read", size)
         /\ UNCHANGED <<srcPos, srcFailed, err, engPos>>
    ELSE IF r.ok
    THEN /\ srcPos' = srcPos + r.n
         /\ engPos' = engPos + r.n
         /\ last' = [Prim("read", size) EXCEPT !.ret = r.n, !.reads = 1,
                                               !.bytes = ReadBytes(srcPos, r.n)]
         /\ UNCHANGED <<srcFailed, err>>
    ELSE /\ err' = TRUE
         /\ srcFailed' = TRUE
         /\ last' = [Prim("read", size) EXCEPT !.reads = 2, !.failed = TRUE]
         /\ UNCHANGED <<srcPos, engPos>>

\* Wrapper::read.  r is what reader.read(dest) returns, if it is called.
Wrapper_read(size, r) ==
    IF err
    THEN /\ last' = Prim("read", size)
         /\ UNCHANGED <<srcPos, srcFailed, err, engPos>>
    ELSE IF r.ok
    THEN /\ srcPos' = srcPos + r.n
         /\ engPos' = engPos + r.n
         /\ last' = [Prim("read", size) EXCEPT !.ret = r.n, !.reads = 1,
                                               !.bytes = ReadBytes(srcPos, r.n)]
         /\ UNCHANGED <<srcFailed, err>>
    ELSE /\ err' = TRUE
         /\ srcFailed' = TRUE
         /\ last' = [Prim("read", size) EXCEPT !.reads = 1, !.failed = TRUE]
         /\ UNCHANGED <<srcPos, engPos>>

\* extern "C" fn io_read
io_read ==
    /\ pc = "decoding"
    /\ \E size \in 0..MaxRead :
           \E r \in ReadOutcomes(srcPos, size) : Wrapper_read(size, r)
    /\ UNCHANGED <<overflowChecks, dxt, encVars, pc, call, result, dataVars>>

\* what the seeks of one skip(n) may return: r.ok1 for the first seek and
\* r.ok2 for the second, which only a negative n makes
SeekOutcomes(n) ==
    IF n > 0 THEN {[ok1 |-> TRUE, ok2 |-> TRUE], [ok1 |-> FALSE, ok2 |-> TRUE]}
    ELSE IF n < 0 THEN {[ok1 |-> TRUE, ok2 |-> TRUE], [ok1 |-> TRUE, ok2 |-> FALSE],
                        [ok1 |-> FALSE, ok2 |-> TRUE]}
    ELSE {[ok1 |-> TRUE, ok2 |-> TRUE]}

\* Wrapper::skip.  r holds the outcomes of its seeks on the source.  The latch
\* is not consulted.
Wrapper_skip(n, r) ==
    IF n > 0
    THEN \* reader.seek(SeekFrom::Current(n))
         IF r.ok1
         THEN /\ srcPos' = srcPos + n
              /\ engPos' = engPos + n
              /\ last' = [Prim("skip", n) EXCEPT !.seeks = 1]
              /\ UNCHANGED <<pc, srcFailed, err>>
         ELSE /\ err' = TRUE
              /\ srcFailed' = TRUE
              /\ last' = [Prim("skip", n) EXCEPT !.seeks = 1, !.failed = TRUE]
              /\ UNCHANGED <<pc, srcPos, engPos>>
    ELSE IF n < 0
    THEN \* reader.seek(SeekFrom::Current(0)) -- find current position
         IF ~r.ok1
         THEN /\ err' = TRUE
              /\ srcFailed' = TRUE
              /\ last' = [Prim("skip", n) EXCEPT !.seeks = 1, !.failed = TRUE]
              /\ UNCHANGED <<pc, srcPos, engPos>>
         ELSE \* pos - n as u64
              LET d == SubU64(U64(srcPos), I32AsU64(n))
              IN  IF d.overflow /\ overflowChecks
                  THEN \* "attempt to subtract with overflow"
                       /\ pc' = "panicked"
                       /\ last' = [Prim("skip", n) EXCEPT !.seeks = 1]
                       /\ UNCHANGED <<srcPos, srcFailed, err, engPos>>
                  ELSE \* reader.seek(SeekFrom::Start(..))
                       IF r.ok2
                       THEN /\ FitsNat(d.val)
                            /\ srcPos' = U64ToNat(d.val)
                            /\ engPos' = engPos + n
                            /\ last' = [Prim("skip", n) EXCEPT !.seeks = 2]
                            /\ UNCHANGED <<pc, srcFailed, err>>
                       ELSE /\ err' = TRUE
                            /\ srcFailed' = TRUE
                            /\ last' = [Prim("skip", n) EXCEPT !.seeks = 2,
                                                               !.failed = TRUE]
                            /\ UNCHANGED <<pc, srcPos, engPos>>
    ELSE \* do nothing if zero
         /\ last' = Prim("skip", 0)
         /\ UNCHANGED <<pc, srcPos, srcFailed, err, engPos>>

\* extern "C" fn io_skip.  The Engine skips within the offsets explored and
\* ungets no further back than the first byte of the source.
io_skip ==
    /\ pc = "decoding"
    /\ \E n \in -MaxSkip..MaxSkip :
           /\ srcPos + (IF n < 0 THEN -n ELSE n) <= MaxPos
           /\ engPos + n >= 0
           /\ \E r \in SeekOutcomes(n) : Wrapper_skip(n, r)
    /\ UNCHANGED <<overflowChecks, dxt, encVars, call, result, dataVars>>

\* Wrapper::eof reporting the source's end as well as the latch
Wrapper_eof_AtSourceEnd ==
    /\ last' = [Prim("eof", 0) EXCEPT
                   !.ret = IF err \/ srcPos >= SrcLen THEN 1 ELSE 0]
    /\ UNCHANGED <<srcPos, srcFailed, err, engPos>>

\* Wrapper::eof
Wrapper_eof ==
    /\ last' = [Prim("eof", 0) EXCEPT !.ret = IF err THEN 1 ELSE 0]
    /\ UNCHANGED <<srcPos, srcFailed, err, engPos>>

\* extern "C" fn io_eof
io_eof ==
    /\ pc = "decoding"
    /\ Wrapper_eof
    /\ UNCHANGED <<overflowChecks, dxt, encVars, pc, call, result, dataVars>>

(***************************************************************************)
(* Owned Buffer: Data<T>                                                   *)
(***************************************************************************)

\* Data::new sizing the buffer by the native channel count whatever was asked
Data_new_NativeOnly(data, desired_channels, info) ==
    LET wh == MulI32(info.width, info.height)
        whc == MulI32(wh.val, info.components)
    IN  [overflow |-> wh.overflow \/ whc.overflow,
         value |-> [data |-> data,
                    size |-> I32AsU64(whc.val),
                    views |-> 0,
                    from |-> [info |-> info, desired |-> desired_channels]]]

\* Data::new -- the struct, and whether computing its size overflowed i32.
\* `from` is not a field of Data: it records the arguments of construction.
Data_new(data, desired_channels, info) ==
    LET components == IF desired_channels = Default
                      THEN info.components
                      ELSE desired_channels
        wh == MulI32(info.width, info.height)
        whc == MulI32(wh.val, components)
    IN  [overflow |-> wh.overflow \/ whc.overflow,
         value |-> [data |-> data,
                    size |-> I32AsU64(whc.val),
                    views |-> 0,
                    from |-> [info |-> info, desired |-> desired_channels]]]

\* sys::stbi_image_free -- the Engine's free hook
stbi_image_free(p) ==
    heap' = [heap EXCEPT ![p].st = "freed", ![p].frees = @ + 1]

\* the sequence s without its i-th element
Remove(s, i) == SubSeq(s, 1, i - 1) \o SubSeq(s, i + 1, Len(s))

\* Drop for Data, run when the value bufs[i] goes out of scope
Data_drop(i) ==
    /\ stbi_image_free(bufs[i].data)
    /\ bufs' = Remove(bufs, i)

\* heap[p].views: the views that were taken of the buffer at p
Viewed(p) == [heap EXCEPT ![p].views = @ + 1]

\* Data::size
Data_size(i) ==
    /\ result' = [NoResult EXCEPT !.fn = "size", !.tag = "Size",
                                  !.data = bufs[i].data, !.len = bufs[i].size]
    /\ UNCHANGED dataVars

\* what reading the elements at address p of heap h may give: the elements
\* of a live allocation, anything once it is freed
Deref(h, p) == IF h[p].st = "live" THEN {h[p].fill} ELSE Stale

\* Data::as_slice
Data_as_slice(i) ==
    /\ bufs[i].views < MaxViews
    /\ \E v \in Deref(heap, bufs[i].data) :
           result' = [NoResult EXCEPT !.fn = "as_slice", !.tag = "Slice",
                          !.data = bufs[i].data, !.len = bufs[i].size,
                          !.elems = v]
    /\ bufs' = [bufs EXCEPT ![i].views = @ + 1]
    /\ heap' = Viewed(bufs[i].data)

\* Data::into_vec forgetting self instead of dropping it
Data_into_vec_Forget(i) ==
    /\ \E v \in Deref(heap, bufs[i].data) :
           result' = [NoResult EXCEPT !.fn = "into_vec", !.tag = "Vec",
                          !.data = bufs[i].data, !.len = bufs[i].size,
                          !.elems = v]
    /\ bufs' = Remove(bufs, i)
    /\ UNCHANGED heap

\* Data::into_vec dropping self before the copy is made
Data_into_vec_FreeFirst(i) ==
    /\ Data_drop(i)
    /\ \E v \in Deref(heap', bufs[i].data) :
           result' = [NoResult EXCEPT !.fn = "into_vec", !.tag = "Vec",
                          !.data = bufs[i].data, !.len = bufs[i].size,
                          !.elems = v]

\* Data::into_vec -- self.as_slice().to_vec() copies the elements of the view
\* into a Vec, then self is dropped at the end of the function
Data_into_vec(i) ==
    /\ \E v \in Deref(heap, bufs[i].data) :
           result' = [NoResult EXCEPT !.fn = "into_vec", !.tag = "Vec",
                          !.data = bufs[i].data, !.len = bufs[i].size,
                          !.elems = v]
    /\ Data_drop(i)

\* the caller lets a Data value go out of scope
caller_drop ==
    /\ pc = "idle"
    /\ \E i \in 1..Len(bufs) : Data_drop(i)
    /\ result' = NoResult
    /\ UNCHANGED <<overflowChecks, dxt, encVars, pc, call, bridgeVars>>

caller_size ==
    /\ pc = "idle"
    /\ \E i \in 1..Len(bufs) : Data_size(i)
    /\ UNCHANGED <<overflowChecks, dxt, encVars, pc, call, bridgeVars>>

caller_as_slice ==
    /\ pc = "idle"
    /\ \E i \in 1..Len(bufs) : Data_as_slice(i)
    /\ UNCHANGED <<overflowChecks, dxt, encVars, pc, call, bridgeVars>>

caller_into_vec ==
    /\ pc = "idle"
    /\ \E i \in 1..Len(bufs) : Data_into_vec(i)
    /\ UNCHANGED <<overflowChecks, dxt, encVars, pc, call, bridgeVars>>

(***************************************************************************)
(* The Engine's decoders, as seen from the caller: what they may return.   *)
(***************************************************************************)

\* addresses the Engine's allocator may return for a new image
FreeAddrs == {p \in Ptrs : heap[p].st # "live"}

\* the (pointer, metadata) pairs a load entry point of the Engine may produce:
\* null, or a fresh allocation described by its metadata
EngineLoads ==
    {[data |-> Null, info |-> InfoDefault]}
        \cup {[data |-> p, info |-> i] : p \in FreeAddrs, i \in EngineInfos}

\* the (result, metadata) pairs an info entry point of the Engine may produce
EngineInfoRets ==
    {[ret |-> 0, info |-> InfoDefault]}
        \cup {[ret |-> 1, info |-> i] : i \in EngineInfos}

\* the allocation the Engine made for a returned pointer
Allocated(e) ==
    IF e.data = Null THEN heap
    ELSE [heap EXCEPT ![e.data] = [st |-> "live", frees |-> 0, views |-> 0,
                                   fill |-> Elem(e.info)]]

(***************************************************************************)
(* Top-level decode functions                                              *)
(***************************************************************************)

\* the tail of a load function without its `if data.is_null()`
LoadResult_NoNullCheck(fn, desired_channels, e) ==
    LET d == Data_new(e.data, desired_channels, e.info)
    IN  /\ result' = [EngineResult(fn) EXCEPT !.tag = "Some",
                           !.engine = e.data, !.info = e.info,
                           !.data = d.value.data, !.len = d.value.size]
        /\ pc' = "idle"
        /\ heap' = Allocated(e)
        /\ bufs' = Append(bufs, d.value)

\* the tail of a load function returning an Info whose components field is
\* the effective channel count
LoadResult_InfoRemapped(fn, desired_channels, e) ==
    IF e.data = Null
    THEN /\ result' = [EngineResult(fn) EXCEPT !.tag = "None"]
         /\ pc' = "idle"
         /\ UNCHANGED dataVars
    ELSE LET d == Data_new(e.data, desired_channels, e.info)
         IN  /\ result' = [EngineResult(fn) EXCEPT !.tag = "Some",
                                !.engine = e.data,
                                !.info = [e.info EXCEPT !.components =
                                             IF desired_channels = Default
                                             THEN @ ELSE desired_channels],
                                !.data = d.value.data,
                                !.len = d.value.size]
             /\ pc' = "idle"
             /\ heap' = Allocated(e)
             /\ bufs' = Append(bufs, d.value)

\* the tail shared by the six load functions:
\* if data.is_null() { None } else { Some((info, Data::new(..))) }
LoadResult(fn, desired_channels, e) ==
    IF e.data = Null
    THEN /\ result' = [EngineResult(fn) EXCEPT !.tag = "None"]
         /\ pc' = "idle"
         /\ UNCHANGED dataVars
    ELSE LET d == Data_new(e.data, desired_channels, e.info)
         IN  IF d.overflow /\ overflowChecks
             THEN \* "attempt to multiply with overflow"
                  /\ pc' = "panicked"
                  /\ result' = NoResult
                  /\ heap' = Allocated(e)
                  /\ UNCHANGED bufs
             ELSE /\ result' = [EngineResult(fn) EXCEPT !.tag = "Some",
                                    !.engine = e.data, !.info = e.info,
                                    !.data = d.value.data,
                                    !.len = d.value.size]
                  /\ pc' = "idle"
                  /\ heap' = Allocated(e)
                  /\ bufs' = Append(bufs, d.value)

\* the memory variants: one Engine call on the whole buffer
LoadFromMemory(fn) ==
    /\ pc = "idle"
    /\ \E desired_channels \in Channels, e \in EngineLoads :
           LoadResult(fn, desired_channels, e)
    /\ call' = NoCall
    /\ UNCHANGED <<overflowChecks, dxt, encVars, bridgeVars>>

\* the reader variants: Wrapper::new, then the Engine runs on the callbacks.
\* desired_channels is only handed on to the Engine and to Data::new, so it is
\* drawn where it is used, at the Engine's return.
LoadFromReader(fn) == Wrapper_new(fn)

\* .. and, when the Engine returns, the bridge is dropped
LoadFromReaderRet(fn) ==
    /\ pc = "decoding"
    /\ call.fn = fn
    /\ \E desired_channels \in Channels, e \in EngineLoads :
           LoadResult(fn, desired_channels, e)
    /\ call' = NoCall
    /\ err' = FALSE
    /\ srcFailed' = FALSE
    /\ last' = NoPrim
    /\ engPos' = 0
    /\ UNCHANGED <<overflowChecks, dxt, encVars, srcPos>>

stbi_load_from_memory == LoadFromMemory("stbi_load_from_memory")
stbi_load_16_from_memory == LoadFromMemory("stbi_load_16_from_memory")
stbi_loadf_from_memory == LoadFromMemory("stbi_loadf_from_memory")

stbi_load_from_reader == LoadFromReader("stbi_load_from_reader")
stbi_load_16_from_reader == LoadFromReader("stbi_load_16_from_reader")
stbi_loadf_from_reader == LoadFromReader("stbi_loadf_from_reader")

stbi_load_from_reader_ret == LoadFromReaderRet("stbi_load_from_reader")
stbi_load_16_from_reader_ret == LoadFromReaderRet("stbi_load_16_from_reader")
stbi_loadf_from_reader_ret == LoadFromReaderRet("stbi_loadf_from_reader")

\* the tail of an info function returning Some(info) whatever ret is
InfoResult_AlwaysSome(fn, e) ==
    result' = [EngineResult(fn) EXCEPT !.engine = e.ret, !.tag = "Some",
                   !.info = e.info]

\* if ret == 0 { None } else { Some(info) }
InfoResult(fn, e) ==
    result' = [EngineResult(fn) EXCEPT !.engine = e.ret,
                   !.tag = IF e.ret = 0 THEN "None" ELSE "Some",
                   !.info = IF e.ret = 0 THEN InfoDefault ELSE e.info]

stbi_info_from_memory ==
    /\ pc = "idle"
    /\ \E e \in EngineInfoRets : InfoResult("stbi_info_from_memory", e)
    /\ call' = NoCall
    /\ UNCHANGED <<overflowChecks, dxt, encVars, pc, bridgeVars, dataVars>>

stbi_info_from_reader ==
    Wrapper_new("stbi_info_from_reader")

stbi_info_from_reader_ret ==
    /\ pc = "decoding"
    /\ call.fn = "stbi_info_from_reader"
    /\ \E e \in EngineInfoRets : InfoResult("stbi_info_from_reader", e)
    /\ pc' = "idle"
    /\ call' = NoCall
    /\ err' = FALSE
    /\ srcFailed' = FALSE
    /\ last' = NoPrim
    /\ engPos' = 0
    /\ UNCHANGED <<overflowChecks, dxt, encVars, srcPos, dataVars>>

\* ret == 1
Is16Result(fn, ret) ==
    result' = [EngineResult(fn) EXCEPT !.engine = ret,
                   !.tag = IF ret = 1 THEN "true" ELSE "false"]

stbi_is_16_bit_from_memory ==
    /\ pc = "idle"
    /\ \E ret \in {0, 1} : Is16Result("stbi_is_16_bit_from_memory", ret)
    /\ call' = NoCall
    /\ UNCHANGED <<overflowChecks, dxt, encVars, pc, bridgeVars, dataVars>>

stbi_is_16_bit_from_reader ==
    Wrapper_new("stbi_is_16_bit_from_reader")

stbi_is_16_bit_from_reader_ret ==
    /\ pc = "decoding"
    /\ call.fn = "stbi_is_16_bit_from_reader"
    /\ \E ret \in {0, 1} : Is16Result("stbi_is_16_bit_from_reader", ret)
    /\ pc' = "idle"
    /\ call' = NoCall
    /\ err' = FALSE
    /\ srcFailed' = FALSE
    /\ last' = NoPrim
    /\ engPos' = 0
    /\ UNCHANGED <<overflowChecks, dxt, encVars, srcPos, dataVars>>

(***************************************************************************)
(* The Engine's encoders.  Their code is no part of the sources modelled   *)
(* here; what they produce is taken from the specification: an encode of a *)
(* pixel buffer yields one byte string, written whole to the named         *)
(* destination or pushed in chunks whose sizes the Engine chooses.         *)
(***************************************************************************)
Formats == {"png", "bmp", "tga", "hdr", "jpg"}

\* pixel inputs (w, h, comp, buffer)
Images ==
    { [w |-> 1, h |-> 1, comp |-> 1, buffer |-> <<1>>],
      [w |-> 2, h |-> 1, comp |-> 1, buffer |-> <<1, 7>>] }

\* the first byte of each format's output
Magic(fmt) ==
    CASE fmt = "png" -> 137
      [] fmt = "bmp" -> 66
      [] fmt = "tga" -> 0
      [] fmt = "hdr" -> 35
      [] fmt = "jpg" -> 255

\* the encoded bytes of an image
Encoded(fmt, img) == <<Magic(fmt)>> \o img.buffer

\* bytes a read past a chunk's end may find
JunkBytes == {0, 255}

\* what an encode-to-file entry point may leave behind: nothing and 0, or the
\* whole encoding at the named destination and non-zero
EngineFileOutcomes(fmt, img) ==
    { [ret |-> 0, bytes |-> <<>>], [ret |-> 1, bytes |-> Encoded(fmt, img)] }

\* what an encode-to-func entry point may return after pushing `chunks` of
\* the encoding `out`: 0 if it gave up, non-zero once all of `out` is pushed
EngineFuncRets(out, chunks) ==
    {0} \cup (IF chunks = out THEN {1} ELSE {})

(***************************************************************************)
(* Write Bridge                                                            *)
(***************************************************************************)

\* size_of::<T>() of the sink's element type
SizeOf(T) == IF T = "f32" THEN 4 ELSE 1

\* write_func::<F, T> never calling f
write_func_Drops(T, data, size, beyond) == sunk' = sunk

\* write_func::<F, T> -- slice::from_raw_parts_mut(data as *mut T, size) and
\* f(buffer).  The slice has `size` elements of T from address data;
\* `beyond` is what lies in memory after the Engine's `size` bytes.
write_func(T, data, size, beyond) ==
    LET span == size * SizeOf(T)
        chunk == SubSeq(enc.out, data + 1, data + size)
        buffer == [data |-> data, len |-> size,
                   bytes |-> chunk \o [i \in 1..(span - size) |-> beyond]]
    IN  sunk' = Append(sunk, buffer)

\* the Engine pushes the next `size` bytes of its output through the bridge
push ==
    /\ pc = "encoding"
    /\ Len(pushed) < MaxPushes
    /\ LET data == IF pushed = <<>> THEN 0
                   ELSE pushed[Len(pushed)].data + pushed[Len(pushed)].size
       IN  \E size \in 0..MaxChunk, beyond \in JunkBytes :
               /\ data + size <= Len(enc.out)
               /\ pushed' = Append(pushed,
                      [data |-> data, size |-> size,
                       bytes |-> SubSeq(enc.out, data + 1, data + size)])
               /\ write_func(enc.elem, data, size, beyond)
    /\ UNCHANGED <<overflowChecks, dxt, pc, call, result, bridgeVars, dataVars,
                   enc, file>>

\* the bytes the Engine has pushed so far
RECURSIVE Concat(_)
Concat(chunks) ==
    IF chunks = <<>> THEN <<>> ELSE Head(chunks).bytes \o Concat(Tail(chunks))

(***************************************************************************)
(* Top-level encode functions                                              *)
(***************************************************************************)

\* if ret == 0 { None } else { Some(()) }
WriteResult(fn, ret) ==
    result' = [EngineResult(fn) EXCEPT !.engine = ret,
                   !.tag = IF ret = 0 THEN "None" ELSE "Some"]

\* stbi_write_<fmt>: the Engine writes the encoding to the file, or fails
WriteToFile(fmt) ==
    /\ pc = "idle"
    /\ \E img \in Images :
           \E e \in EngineFileOutcomes(fmt, img) :
               /\ file' = [fmt |-> fmt, img |-> img, ret |-> e.ret,
                           bytes |-> e.bytes]
               /\ WriteResult("stbi_write_" \o fmt, e.ret)
    /\ call' = NoCall
    /\ UNCHANGED <<overflowChecks, dxt, pc, bridgeVars, dataVars, enc, pushed, sunk>>

\* stbi_write_<fmt>_to_func: the Engine is started on write_func::<F, T>
WriteToFunc(fmt, T) ==
    /\ pc = "idle"
    /\ pc' = "encoding"
    /\ \E img \in Images :
           enc' = [fn |-> "stbi_write_" \o fmt \o "_to_func", fmt |-> fmt,
                   elem |-> T, img |-> img, out |-> Encoded(fmt, img),
                   ret |-> 0]
    /\ pushed' = <<>>
    /\ sunk' = <<>>
    /\ result' = NoResult
    /\ call' = NoCall
    /\ UNCHANGED <<overflowChecks, dxt, bridgeVars, dataVars, file>>

\* .. and returns
WriteToFuncRet(fmt) ==
    /\ pc = "encoding"
    /\ enc.fn = "stbi_write_" \o fmt \o "_to_func"
    /\ \E ret \in EngineFuncRets(enc.out, Concat(pushed)) :
           /\ WriteResult(enc.fn, ret)
           /\ enc' = [enc EXCEPT !.ret = ret]
    /\ pc' = "idle"
    /\ UNCHANGED <<overflowChecks, dxt, call, bridgeVars, dataVars, pushed, sunk,
                   file>>

stbi_write_png == WriteToFile("png")
stbi_write_bmp == WriteToFile("bmp")
stbi_write_tga == WriteToFile("tga")
stbi_write_hdr == WriteToFile("hdr")
stbi_write_jpg == WriteToFile("jpg")

stbi_write_png_to_func == WriteToFunc("png", "u8")
stbi_write_bmp_to_func == WriteToFunc("bmp", "u8")
stbi_write_tga_to_func == WriteToFunc("tga", "u8")
stbi_write_hdr_to_func == WriteToFunc("hdr", "f32")
stbi_write_jpg_to_func == WriteToFunc("jpg", "u8")

stbi_write_png_to_func_ret == WriteToFuncRet("png")
stbi_write_bmp_to_func_ret == WriteToFuncRet("bmp")
stbi_write_tga_to_func_ret == WriteToFuncRet("tga")
stbi_write_hdr_to_func_ret == WriteToFuncRet("hdr")
stbi_write_jpg_to_func_ret == WriteToFuncRet("jpg")

\* the Read Bridge at work: the reader-based calls and the Engine's callbacks
NextBridge ==
    \/ stbi_info_from_reader
    \/ stbi_info_from_reader_ret
    \/ stbi_is_16_bit_from_reader
    \/ stbi_is_16_bit_from_reader_ret
    \/ stbi_load_from_reader
    \/ stbi_load_from_reader_ret
    \/ stbi_load_16_from_reader
    \/ stbi_load_16_from_reader_ret
    \/ stbi_loadf_from_reader
    \/ stbi_loadf_from_reader_ret
    \/ io_read
    \/ io_skip
    \/ io_eof

\* the Owned Buffers at work: every top-level decode call and the caller's
\* use of the Data values they return
NextData ==
    \/ stbi_info_from_memory
    \/ stbi_info_from_reader
    \/ stbi_info_from_reader_ret
    \/ stbi_is_16_bit_from_memory
    \/ stbi_is_16_bit_from_reader
    \/ stbi_is_16_bit_from_reader_ret
    \/ stbi_load_from_memory
    \/ stbi_load_from_reader
    \/ stbi_load_from_reader_ret
    \/ stbi_load_16_from_memory
    \/ stbi_load_16_from_reader
    \/ stbi_load_16_from_reader_ret
    \/ stbi_loadf_from_memory
    \/ stbi_loadf_from_reader
    \/ stbi_loadf_from_reader_ret
    \/ caller_as_slice
    \/ caller_size
    \/ caller_into_vec
    \/ caller_drop

\* the Write Bridge at work: every top-level encode call and the Engine's pushes
NextEncode ==
    \/ stbi_write_png
    \/ stbi_write_bmp
    \/ stbi_write_tga
    \/ stbi_write_hdr
    \/ stbi_write_jpg
    \/ stbi_write_png_to_func
    \/ stbi_write_png_to_func_ret
    \/ stbi_write_bmp_to_func
    \/ stbi_write_bmp_to_func_ret
    \/ stbi_write_tga_to_func
    \/ stbi_write_tga_to_func_ret
    \/ stbi_write_hdr_to_func
    \/ stbi_write_hdr_to_func_ret
    \/ stbi_write_jpg_to_func
    \/ stbi_write_jpg_to_func_ret
    \/ push

Next == NextBridge \/ NextData \/ NextEncode

\* The three parts share no state but pc, call and result, so each is also
\* explored on its own.
SpecBridge == Init /\ [][NextBridge]_vars
SpecData == Init /\ [][NextData]_vars
SpecEncode == Init /\ [][NextEncode]_vars
Spec == Init /\ [][Next]_vars

(***************************************************************************)
(* Data::new on its own: the load tail run on metadata anywhere in the     *)
(* non-negative range of i32, whatever the Engine would in fact report.    *)
(***************************************************************************)

\* widths and heights: the ends of the range and the values around which
\* the i32 product starts to overflow (46341^2 > 2^31 - 1, 65536^2 = 2^32)
Dims == {0, 1, 20, 30, 46340, 46341, 65536, I32Max}

\* every Info with width and height among Dims and 1 to 4 native channels
AnyInfos ==
    {[width |-> w, height |-> h, components |-> c] :
        w \in Dims, h \in Dims, c \in Grey..RgbAlpha}

\* a load call to which the Engine returned a pointer with such metadata:
\* if data.is_null() { None } else { Some((info, Data::new(..))) }
Data_new_any ==
    /\ pc = "idle"
    /\ \E desired_channels \in Channels, p \in FreeAddrs, i \in AnyInfos :
           LoadResult("stbi_load_from_memory", desired_channels,
                      [data |-> p, info |-> i])
    /\ call' = NoCall
    /\ UNCHANGED <<overflowChecks, dxt, encVars, bridgeVars>>

NextSize ==
    \/ Data_new_any
    \/ caller_size
    \/ caller_as_slice
    \/ caller_drop

SpecSize == Init /\ [][NextSize]_vars

(***************************************************************************)
(* DXT block compression (dxt.rs).  The compressor itself is the Engine's  *)
(* stb_dxt, no part of the sources modelled here; what it reads and writes *)
(* is taken from the specification.                                        *)
(***************************************************************************)

\* CompressionMode, as i32
Normal == 0
Dither == 1
Highqual == 2
CompressionMode == {Normal, Dither, Highqual}

\* values of the alpha argument
Alphas == {-1, 0, 1}

\* lengths of the dest slice: empty, and around the 8 and 16 bytes of a block
DestLens == {0, 4, 8, 12, 16, 24}

\* lengths of the source slice: empty, odd, the multiples of 16 up to and
\* beyond a 4x4 RGBA block, and the lengths next to that block's 64 bytes
SrcLens == {0, 1, 16, 32, 48, 63, 64, 65, 80}

\* cfg(debug_assertions), which makes debug_assert_* check anything: Cargo's
\* profiles switch it together with the overflow checks (dev: both on,
\* release: both off)
debug_assertions == overflowChecks

\* the four debug_assert_* of stb_compress_dxt_block
LengthChecks(dest_len, src_len) ==
    /\ src_len # 0
    /\ src_len % 16 = 0
    /\ dest_len # 0
    /\ dest_len % 8 = 0

\* the bytes sys::stb_compress_dxt_block reads from src, a 4x4 block of RGBA
\* pixels, and writes to dest: the colour block, preceded by the alpha block
\* when alpha is non-zero
EngineDxt(alpha) ==
    [read |-> 4 * 4 * 4, written |-> IF alpha = 0 THEN 8 ELSE 16]

\* stb_compress_dxt_block on a dest of dest_len bytes and a source of
\* src_len bytes
stb_compress_dxt_block ==
    /\ pc = "idle"
    /\ \E dest_len \in DestLens, src_len \in SrcLens,
          alpha \in Alphas, mode \in CompressionMode :
           LET args == [NoDxt EXCEPT !.dest_len = dest_len,
                                    !.src_len = src_len,
                                    !.alpha = alpha, !.mode = mode]
           IN  IF debug_assertions /\ ~LengthChecks(dest_len, src_len)
               THEN \* a debug_assert_* fails
                    /\ pc' = "panicked"
                    /\ dxt' = [args EXCEPT !.tag = "panicked"]
               ELSE \* unsafe { sys::stb_compress_dxt_block(..) }
                    /\ pc' = pc
                    /\ dxt' = [args EXCEPT !.tag = "returned",
                                   !.read = EngineDxt(alpha).read,
                                   !.written = EngineDxt(alpha).written]
    /\ UNCHANGED <<overflowChecks, call, result, bridgeVars, dataVars,
                   encVars>>

NextDxt == stb_compress_dxt_block

SpecDxt == Init /\ [][NextDxt]_vars
(***************************************************************************)
(* Properties of the Read Bridge                                           *)
(***************************************************************************)

\* C1 -- error latch: once a failing read or seek has set the latch, it stays
\* set for as long as the bridge lives, every later pull returns 0 and every
\* later at_end returns non-zero.
C1_LatchStaysSet ==
    [][(pc = "decoding" /\ err /\ pc' # "idle") =>
          /\ err'
          /\ (last'.op = "read" => last'.ret = 0)
          /\ (last'.op = "eof" => last'.ret = 1)]_vars

\* a pull for 2 bytes made with the latch set, where the source still has
\* bytes to give
C1_Witness ==
    /\ pc = "decoding"
    /\ err
    /\ last.op = "read"
    /\ last.latched
    /\ last.n = 2
    /\ last.before < SrcLen

\* C2 -- advance round trip: with a source whose seeks succeed and the latch
\* clear, advance(-k) at an offset p >= k followed at once by advance(+k)
\* leaves the source at p, the latch still clear.
C2_RoundTrip ==
    [][(/\ pc = "decoding"
        /\ last.op = "skip" /\ last.n < 0
        /\ ~last.latched /\ ~last.failed
        /\ last.before >= -last.n
        /\ pc' = "decoding"
        /\ last'.op = "skip" /\ last'.n = -last.n
        /\ ~last'.failed)
       => (srcPos' = last.before /\ ~err')]_vars

\* the n bytes at offset o of the complete in-memory buffer
MemBytes(o, n) ==
    [i \in 1..n |-> IF o + i \in 1..SrcLen THEN SrcBytes[o + i] ELSE -1]

\* C5 -- the two input paths agree: while the source has not failed, the
\* source is at the offset the Engine is at in the encoded bytes, and the
\* bytes a pull hands the Engine are the in-memory buffer's bytes there.
C5_SameByteStream ==
    (pc = "decoding" /\ ~srcFailed) =>
        /\ srcPos = engPos
        /\ (last.op = "read" =>
                last.bytes = MemBytes(engPos - last.ret, last.ret))

\* C10 -- pull result: with the latch clear, pull makes one read on the
\* source; on success it returns the source's count n, 0 <= n <= max_len,
\* with the latch still clear; on failure it sets the latch and returns 0.
C10_PullResult ==
    (pc = "decoding" /\ last.op = "read" /\ ~last.latched) =>
        /\ last.reads = 1
        /\ last.seeks = 0
        /\ ~last.failed =>
              /\ last.ret = Len(last.bytes)
              /\ last.ret \in 0..last.n
              /\ srcPos = last.before + last.ret
              /\ ~err
        /\ last.failed => (err /\ last.ret = 0 /\ srcPos = last.before)

\* a short read: the source gave 1 byte of the 2 asked for
C10_Witness ==
    /\ pc = "decoding"
    /\ last.op = "read"
    /\ ~last.latched
    /\ ~last.failed
    /\ last.n = 2
    /\ last.ret = 1
    /\ ~err

C12_Reposition ==
    (/\ pc = "decoding"
     /\ last.op = "skip"
     /\ ~last.failed
     /\ (last.n < 0 => last.before >= -last.n))
    => /\ srcPos = last.before + last.n
       /\ (last.n = 0 => (last.reads = 0 /\ last.seeks = 0))

\* C13 -- post-latch no-ops: a primitive call made with the latch set makes
\* no read and no seek on the source and leaves it at the offset it was at.
C13_LatchedNoOp ==
    (pc = "decoding" /\ last.op # "none" /\ last.latched)
    => /\ last.reads = 0
       /\ last.seeks = 0
       /\ srcPos = last.before

\* C14 -- advance never raises: an advance in which a seek failed has set the
\* latch and returned to the Engine, and no advance ends in a panic.
C14_SkipNeverRaises ==
    last.op = "skip" =>
        /\ pc # "panicked"
        /\ last.failed => (err /\ pc = "decoding")

\* the most seeks one advance(n) may make: one forward seek, or the offset
\* query and the absolute seek
MaxSeeks(n) == IF n > 0 THEN 1 ELSE IF n < 0 THEN 2 ELSE 0

\* C15 -- no retries: a pull has made at most one read on the source, exactly
\* one when that read failed, and no seek; an advance has made each of its
\* seeks at most once and no read; a top-level call that returned has invoked
\* the Engine once, and an Engine failure (null, 0) came back as None.
C15_NoRetries ==
    /\ last.op = "read" =>
           /\ last.reads <= 1
           /\ last.seeks = 0
           /\ last.failed => last.reads = 1
    /\ last.op = "skip" =>
           /\ last.reads = 0
           /\ last.seeks <= MaxSeeks(last.n)
    /\ last.op = "eof" => (last.reads = 0 /\ last.seeks = 0)
    /\ result.invoked # 0 =>
           /\ result.invoked = 1
           /\ (result.engine = 0 /\ result.tag \notin {"true", "false"})
                  => result.tag = "None"

\* a pull whose read on the source failed: the one read was made, the latch
\* is set
C15_Witness ==
    /\ pc = "decoding"
    /\ last.op = "read"
    /\ last.failed
    /\ last.reads = 1
    /\ last.ret = 0
    /\ err

ReaderFns ==
    {"stbi_info_from_reader", "stbi_is_16_bit_from_reader",
     "stbi_load_from_reader", "stbi_load_16_from_reader",
     "stbi_loadf_from_reader"}

\* C19 -- bridge lifecycle: a reader-based call starts the Engine on a bridge
\* of its own, the latch clear and no primitive made; the bridge ends with
\* the call; and within a call the latch is set only by a failure of the
\* source during that call, whatever latch the call before ended with.
C19_FreshBridge ==
    [][/\ (pc = "idle" /\ pc' = "decoding") =>
              /\ call'.fn \in ReaderFns
              /\ ~err'
              /\ last' = NoPrim
       /\ (pc = "decoding" /\ pc' = "idle") =>
              /\ result'.fn = call.fn
              /\ result'.invoked = 1
              /\ ~err'
       /\ (pc' = "decoding" /\ ~srcFailed') => ~err'
       /\ (pc' = "decoding" /\ ~srcFailed' /\ last'.op = "read")
              => last'.reads = 1]_vars

\* a pull of 2 bytes succeeds in a call made after a call whose bridge ended
\* with the latch set
C19_Witness ==
    /\ pc = "decoding"
    /\ call.prior
    /\ last.op = "read"
    /\ last.reads = 1
    /\ last.ret = 2
    /\ ~err
(***************************************************************************)
(* Properties of the Owned Buffer                                          *)
(***************************************************************************)

\* width x height x effective channels of a construction
ElementCount(from) ==
    from.info.width * from.info.height
        * (IF from.desired = Default THEN from.info.components
           ELSE from.desired)

\* the Data values that own the allocation at p
Owners(p) == {i \in 1..Len(bufs) : bufs[i].data = p}

C4_FreedExactlyOnce ==
    \A p \in Ptrs :
        /\ heap[p].st = "live" =>
               (heap[p].frees = 0 /\ Cardinality(Owners(p)) = 1)
        /\ heap[p].st = "freed" => (heap[p].frees = 1 /\ Owners(p) = {})
        /\ heap[p].st = "unalloc" => (heap[p].frees = 0 /\ Owners(p) = {})

\* a buffer consumed by into_vec after two views of it were taken
C4_Witness ==
    /\ result.tag = "Vec"
    /\ result.data \in Ptrs
    /\ heap[result.data].st = "freed"
    /\ heap[result.data].views = 2
    /\ heap[result.data].frees = 1

\* C17 -- into_vec detaches safely: into_vec returns a vector of size()
\* elements that are the elements the view had when it was called; they were
\* copied while the allocation was live, the allocation is freed once by the
\* time the call returns, and the vector holds them after the free.
C17_IntoVecCopies ==
    [][(result'.tag = "Vec" /\ pc = "idle")
       => \E i \in 1..Len(bufs) :
              /\ bufs' = Remove(bufs, i)
              /\ heap[bufs[i].data].st = "live"
              /\ result'.len = bufs[i].size
              /\ result'.elems = heap[bufs[i].data].fill
              /\ result'.elems = Elem(bufs[i].from.info)
              /\ heap'[bufs[i].data].st = "freed"
              /\ heap'[bufs[i].data].frees = 1]_vars

\* into_vec on the 20x30 image loaded as Grey: 600 elements, each 255, held
\* after the allocation they were copied from is freed
C17_Witness ==
    /\ result.tag = "Vec"
    /\ result.len = U64(600)
    /\ result.elems = 255
    /\ heap[result.data].st = "freed"
    /\ bufs = <<>>

LoadFns ==
    {"stbi_load_from_memory", "stbi_load_16_from_memory",
     "stbi_loadf_from_memory", "stbi_load_from_reader",
     "stbi_load_16_from_reader", "stbi_loadf_from_reader"}

\* C6 -- decode failure short-circuit: a load call to which the Engine
\* returned null returns None, builds no Data and frees nothing; one to which
\* it returned a pointer returns Some with one new Data, the only owner of
\* that pointer.
C6_ShortCircuit ==
    [][(result'.fn \in LoadFns /\ pc \in {"idle", "decoding"} /\ pc' = "idle")
       => IF result'.engine = Null
          THEN /\ result'.tag = "None"
               /\ bufs' = bufs
               /\ heap' = heap
          ELSE /\ result'.tag = "Some"
               /\ result'.data = result'.engine
               /\ Len(bufs') = Len(bufs) + 1
               /\ SubSeq(bufs', 1, Len(bufs)) = bufs
               /\ bufs'[Len(bufs')].data = result'.engine
               /\ \A i \in 1..Len(bufs) : bufs[i].data # result'.engine
               /\ heap'[result'.engine].frees = 0
               /\ \A p \in Ptrs \ {result'.engine} : heap'[p] = heap[p]]_vars

\* a 16-bit load from a reader that failed while the caller holds the buffer
\* of an earlier load
C6_Witness ==
    /\ result.fn = "stbi_load_16_from_reader"
    /\ result.tag = "None"
    /\ Len(bufs) = 1
    /\ heap[bufs[1].data].st = "live"

InfoFns == {"stbi_info_from_memory", "stbi_info_from_reader"}

\* C16 -- info-only queries: an info call returns Some(info), with the
\* Engine's metadata, exactly when the Engine's result is non-zero and None
\* otherwise; it builds no Data and frees nothing.
C16_InfoOnly ==
    [][(result'.fn \in InfoFns /\ pc \in {"idle", "decoding"} /\ pc' = "idle")
       => /\ result'.invoked = 1
          /\ (result'.tag = "Some") <=> (result'.engine # 0)
          /\ (result'.tag = "None") <=> (result'.engine = 0)
          /\ result'.tag = "Some" => result'.info \in EngineInfos
          /\ result'.data = Null
          /\ bufs' = bufs
          /\ heap' = heap]_vars

\* stbi_info_from_reader returned Some({20, 30, 1}) while the caller holds
\* the buffer of an earlier load
C16_Witness ==
    /\ pc = "idle"
    /\ result.fn = "stbi_info_from_reader"
    /\ result.tag = "Some"
    /\ result.info = [width |-> 20, height |-> 30, components |-> 1]
    /\ Len(bufs) = 1
    /\ heap[bufs[1].data].st = "live"

\* C20 -- metadata pass-through: the Info a load call returns is the
\* metadata the Engine reported, its components the native channel count
\* whatever was requested; the requested count shows only in the length of
\* the buffer returned with it.
C20_InfoPassThrough ==
    (result.fn \in LoadFns /\ result.tag = "Some") =>
        /\ result.info \in EngineInfos
        /\ Elem(result.info) = heap[result.data].fill
        /\ Owners(result.data) # {}
        /\ \A i \in Owners(result.data) :
               /\ result.info = bufs[i].from.info
               /\ result.len = U64(result.info.width * result.info.height
                        * (IF bufs[i].from.desired = Default
                           THEN result.info.components
                           ELSE bufs[i].from.desired))

\* the 20x30 one-channel image loaded as 16-bit GreyAlpha from memory:
\* Info {20, 30, 1} and a buffer of 1200 elements
C20_Witness ==
    /\ result.fn = "stbi_load_16_from_memory"
    /\ result.tag = "Some"
    /\ result.info = [width |-> 20, height |-> 30, components |-> 1]
    /\ result.len = U64(1200)
    /\ \E i \in Owners(result.data) : bufs[i].from.desired = GreyAlpha

\* width x height x effective channels as a 64-bit number, for width and
\* height below 2^31: the product without any wrapping
ExactCount(from) ==
    LET c == IF from.desired = Default THEN from.info.components
             ELSE from.desired
        wh == MulLimbs(ToLimbs(from.info.width, 4),
                       ToLimbs(from.info.height, 4))
    IN  SubSeq(MulDigit(wh, c, 0), 1, 8)

\* C21 -- exact element count: for every width and height in the
\* non-negative range of i32 and 1 to 4 effective channels, Data::new does
\* not panic and the size it stores, which size() and as_slice() report, is
\* the product width x height x effective channels, unwrapped.
C21_ExactCount ==
    /\ pc # "panicked"
    /\ \A i \in 1..Len(bufs) : bufs[i].size = ExactCount(bufs[i].from)
    /\ result.tag \in {"Size", "Slice"} =>
           \A i \in Owners(result.data) :
               result.len = ExactCount(bufs[i].from)
(***************************************************************************)
(* Properties of the Write Bridge                                          *)
(***************************************************************************)

\* C7 -- ordering: the sink has been called once per push of the Engine, in
\* the Engine's order, and each slice it was given starts and ends where the
\* Engine's chunk does: the chunks seen are the chunks pushed.
C7_SameChunks ==
    /\ Len(sunk) = Len(pushed)
    /\ \A i \in 1..Len(sunk) :
           /\ sunk[i].data = pushed[i].data
           /\ sunk[i].bytes = pushed[i].bytes

\* a 1x1 single-channel pixel input
OnePixel(img) == img.w = 1 /\ img.h = 1 /\ img.comp = 1

\* C8 -- a push-path encode of a 1x1 single-channel image that returned
\* Some(()) has called the sink at least once with a non-empty slice.
C8_DeliversOutput ==
    (/\ enc.fn # "none"
     /\ result.fn = enc.fn
     /\ result.tag = "Some"
     /\ OnePixel(enc.img))
    => \E i \in 1..Len(sunk) : sunk[i].len > 0

\* stbi_write_bmp_to_func of one pixel returned Some(()) after two chunks
C8_Witness ==
    /\ result.fn = "stbi_write_bmp_to_func"
    /\ result.tag = "Some"
    /\ enc.fn = "stbi_write_bmp_to_func"
    /\ OnePixel(enc.img)
    /\ Len(sunk) = 2
    /\ sunk[1].len = 1

\* C18 -- chunks forwarded verbatim: for every push (data, size) of the
\* Engine, the slice the sink was given starts at data and spans exactly
\* size bytes of memory.
C18_SpansSizeBytes ==
    \A i \in 1..Len(pushed) :
        i <= Len(sunk) =>
            /\ sunk[i].data = pushed[i].data
            /\ Len(sunk[i].bytes) = pushed[i].size

\* C9 -- the two output paths agree: for the same pixel input and format,
\* the slices a successful push-path encode gave the sink, concatenated in
\* order, are the bytes a successful encode to a named destination wrote.
C9_SameOutput ==
    (/\ enc.ret # 0
     /\ file.ret # 0
     /\ file.fmt = enc.fmt
     /\ file.img = enc.img)
    => Concat(sunk) = file.bytes
(***************************************************************************)
(* Properties of DXT block compression                                     *)
(***************************************************************************)

\* C22 -- DXT block bounds: whenever stb_compress_dxt_block has passed its
\* arguments on to the Engine, the source slice holds the 64 bytes the
\* Engine reads and the dest slice the 8 or 16 bytes it writes.
C22_DxtInBounds ==
    dxt.tag = "returned" =>
        /\ dxt.read <= dxt.src_len
        /\ dxt.written <= dxt.dest_len
=============================================================================
